---- MODULE Spec2Model ----
(***************************************************************************)
(* Model of scripts/ingest_appliance_pdfs.py: the per-source document      *)
(* versioning and chunk reconciliation performed by main() against the     *)
(* two store relations manual_documents and manual_chunks.                 *)
(*                                                                         *)
(* One step of the model is one call to an external collaborator (one      *)
(* store call, one embedding attempt, one text extraction) together with   *)
(* the purely local code that follows it up to the next such call.         *)
(***************************************************************************)
EXTENDS Integers, Sequences, FiniteSets, TLC

(***************************************************************************)
(* Bounds of the model.                                                    *)
(***************************************************************************)
MaxRuns == 3            \* invocations of main()
MaxHash == 2            \* contents a file can have: hashes 0..MaxHash
MaxEdits == 2           \* replacements of a file's content between runs
MaxFaults == 1          \* source handlings or runs hit by a failure or a crash
MaxChunkWords == 1      \* --chunk-words is drawn from 0..MaxChunkWords
MaxOverlapWords == 1    \* --overlap-words is drawn from -1..MaxOverlapWords
MaxBatchSize == 1       \* --embed-batch-size, --upsert-batch-size from 0..MaxBatchSize
MaxTokens == 6          \* token streams given to build_chunks on its own: 0..MaxTokens tokens
MaxWindow == 4          \* max_words given to build_chunks on its own: 1..MaxWindow
MaxPages == 5           \* page_count given to chunk_status on its own: 0..MaxPages
MaxEmbedBatch == 3      \* --embed-batch-size of the embedding loop on its own: 1..MaxEmbedBatch
MaxSectionTokens == 4   \* token streams with mixed section labels have 1..MaxSectionTokens tokens
MaxDocPages == 2        \* documents given to build_token_stream on its own: 0..MaxDocPages pages
MaxParagraphs == 2      \* ... of 0..MaxParagraphs paragraphs each
MaxParagraphWords == 2  \* ... a body paragraph having 1..MaxParagraphWords words
MaxChunkCount == 4      \* chunk_count given to chunk_status on its own: 0..MaxChunkCount

(***************************************************************************)
(* Program constants.                                                      *)
(***************************************************************************)
LOW_TEXT_PAGE_WORD_THRESHOLD == 40
MIN_CHUNK_THRESHOLD == 3
SLUG_MAX_LEN == 56
EMBED_MAX_ATTEMPTS == 4

Max2(a, b) == IF a >= b THEN a ELSE b
Min2(a, b) == IF a <= b THEN a ELSE b

(***************************************************************************)
(* The docs directory: two PDF files whose stems are "A B" and "a-b",      *)
(* listed in sorted order.  The source_key of a file is its path relative  *)
(* to the repository root, which is distinct for distinct files.           *)
(***************************************************************************)
pdf_files == << <<"A", " ", "B">>, <<"a", "-", "b">> >>

NumFiles == Len(pdf_files)

source_key_of(i) == << "appliance_docs", pdf_files[i] >>

(***************************************************************************)
(* slugify: lower-case, every maximal run of characters outside [a-z0-9]   *)
(* becomes one "-", leading and trailing "-" are stripped, the result is   *)
(* cut to 56 characters, and an empty result becomes "manual".             *)
(***************************************************************************)
lower(c) ==
    CASE c = "A" -> "a"
      [] c = "B" -> "b"
      [] OTHER -> c

IsSlugChar(c) == c \in {"a", "b", "0", "1"}

RECURSIVE sub_runs(_, _)
sub_runs(s, inRun) ==
    IF s = <<>> THEN <<>>
    ELSE IF IsSlugChar(Head(s)) THEN <<Head(s)>> \o sub_runs(Tail(s), FALSE)
    ELSE IF inRun THEN sub_runs(Tail(s), TRUE)
    ELSE <<"-">> \o sub_runs(Tail(s), TRUE)

RECURSIVE lstrip_dash(_)
lstrip_dash(s) ==
    IF s # <<>> /\ Head(s) = "-" THEN lstrip_dash(Tail(s)) ELSE s

RECURSIVE rstrip_dash(_)
rstrip_dash(s) ==
    IF s # <<>> /\ s[Len(s)] = "-" THEN rstrip_dash(SubSeq(s, 1, Len(s) - 1)) ELSE s

slugify(value) ==
    LET lowered == [i \in 1..Len(value) |-> lower(value[i])]
        slug == rstrip_dash(lstrip_dash(sub_runs(lowered, FALSE)))
    IN  IF slug # <<>> THEN SubSeq(slug, 1, Min2(Len(slug), SLUG_MAX_LEN))
        ELSE <<"m", "a", "n", "u", "a", "l">>

(***************************************************************************)
(* The content of a file is identified by its hash h in 0..MaxHash.  The   *)
(* text extraction of content h yields h pages; the first page carries h   *)
(* body words and every other page one, so hash 0 is a document without    *)
(* extractable text, hash 1 yields one token and hash 2 three tokens.      *)
(* Pages of an even hash carry enough heading words to reach the low-text  *)
(* threshold, pages of an odd hash do not.                                 *)
(***************************************************************************)
Hashes == 0..MaxHash

extract_page_records(h) ==
    [p \in 1..h |->
        [page_number |-> p,
         paragraphs  |-> << [heading |-> FALSE, label |-> "",
                             words |-> [j \in 1..(IF p = 1 THEN h ELSE 1) |->
                                           10 * h + p + 100 * (j - 1)]] >>,
         word_count  |-> IF h % 2 = 0 THEN LOW_TEXT_PAGE_WORD_THRESHOLD
                         ELSE LOW_TEXT_PAGE_WORD_THRESHOLD - 1]]

(***************************************************************************)
(* build_token_stream.  A paragraph is its words together with what        *)
(* looks_like_heading finds for its text (heading) and what clean_heading  *)
(* makes of it (label); the fold runs over the paragraphs of all pages     *)
(* with the current section as its accumulator.                            *)
(***************************************************************************)
looks_like_heading(paragraph) == paragraph.heading

clean_heading(paragraph) == IF paragraph.label # "" THEN paragraph.label ELSE "Overview"

\* mutant: a heading is in force for the next paragraph only
section_after_next_paragraph_only(paragraph, current_section) ==
    IF looks_like_heading(paragraph) THEN clean_heading(paragraph) ELSE "Overview"

\* lines 323-325: the section in force after a paragraph
section_after(paragraph, current_section) ==
    IF looks_like_heading(paragraph) THEN clean_heading(paragraph) ELSE current_section

\* lines 323-329: the tokens one paragraph appends
tokens_of_paragraph(page, paragraph, current_section) ==
    IF looks_like_heading(paragraph) THEN <<>>
    ELSE [i \in 1..Len(paragraph.words) |->
             [word |-> paragraph.words[i],
              page_number |-> page.page_number,
              section |-> current_section]]

RECURSIVE build_token_stream_from(_, _, _, _)
build_token_stream_from(pages, p, q, current_section) ==
    IF p > Len(pages) THEN <<>>
    ELSE IF q > Len(pages[p].paragraphs)
         THEN build_token_stream_from(pages, p + 1, 1, current_section)
    ELSE tokens_of_paragraph(pages[p], pages[p].paragraphs[q], current_section)
         \o build_token_stream_from(pages, p, q + 1,
                                    section_after(pages[p].paragraphs[q], current_section))

build_token_stream(pages) == build_token_stream_from(pages, 1, 1, "Overview")

(***************************************************************************)
(* build_chunks: the sliding window of max_words tokens advancing by       *)
(* step = max(1, max_words - overlap_words).                               *)
(***************************************************************************)
count_of(window, label) ==
    Cardinality({ i \in 1..Len(window) : window[i].section = label })

first_of(window, label) ==
    CHOOSE i \in 1..Len(window) :
        window[i].section = label /\ \A j \in 1..(i - 1) : window[j].section # label

\* mutant: among the labels with the highest count the one met last wins
most_common_section_last_met(window) ==
    LET labels == { window[i].section : i \in { j \in 1..Len(window) : window[j].section # "" } }
    IN  IF labels = {} THEN "Overview"
        ELSE CHOOSE l \in labels :
               \A m \in labels \ {l} :
                   \/ count_of(window, l) > count_of(window, m)
                   \/ /\ count_of(window, l) = count_of(window, m)
                      /\ first_of(window, l) > first_of(window, m)

\* Counter(...).most_common(1): the highest count, ties by first occurrence.
most_common_section(window) ==
    LET labels == { window[i].section : i \in { j \in 1..Len(window) : window[j].section # "" } }
    IN  IF labels = {} THEN "Overview"
        ELSE CHOOSE l \in labels :
               \A m \in labels \ {l} :
                   \/ count_of(window, l) > count_of(window, m)
                   \/ /\ count_of(window, l) = count_of(window, m)
                      /\ first_of(window, l) < first_of(window, m)

\* mutant: the window is one token short
window_of_one_short(tokens, cursor, max_words) ==
    SubSeq(tokens, cursor + 1, Min2(cursor + Max2(1, max_words - 1), Len(tokens)))

window_of(tokens, cursor, max_words) ==
    SubSeq(tokens, cursor + 1, Min2(cursor + max_words, Len(tokens)))

RECURSIVE build_chunks_loop(_, _, _, _, _, _)
build_chunks_loop(tokens, max_words, step, cursor, chunk_index, chunks) ==
    IF ~(cursor < Len(tokens)) THEN chunks
    ELSE
      LET window  == window_of(tokens, cursor, max_words)
          content == [i \in 1..Len(window) |-> window[i].word]
          emitted == IF content # <<>>
                     THEN Append(chunks,
                            [chunk_index |-> chunk_index,
                             section     |-> most_common_section(window),
                             page_start  |-> window[1].page_number,
                             page_end    |-> window[Len(window)].page_number,
                             token_count |-> Len(window),
                             content     |-> content])
                     ELSE chunks
          next_index == IF content # <<>> THEN chunk_index + 1 ELSE chunk_index
      IN  IF window = <<>> THEN chunks
          ELSE IF cursor + max_words >= Len(tokens) THEN emitted
          ELSE build_chunks_loop(tokens, max_words, step, cursor + step, next_index, emitted)

\* mutant: the cursor advances by max_words, the overlap is forgotten
build_chunks_step_is_window(tokens, max_words, overlap_words) ==
    IF tokens = <<>> THEN <<>>
    ELSE build_chunks_loop(tokens, max_words, max_words, 0, 1, <<>>)

build_chunks(tokens, max_words, overlap_words) ==
    IF tokens = <<>> THEN <<>>
    ELSE build_chunks_loop(tokens, max_words, Max2(1, max_words - overlap_words), 0, 1, <<>>)

(***************************************************************************)
(* chunk_status.  ratio > 0.20 is len(low_text_pages) / page_count > 1/5.  *)
(***************************************************************************)
\* mutant: a ratio of exactly 0.20 already makes the document partial
chunk_status_ratio_not_strict(page_count, low_text_pages, chunk_count) ==
    IF chunk_count <= 0 THEN "failed"
    ELSE IF (IF page_count > 0 THEN 5 * Len(low_text_pages) >= page_count ELSE TRUE)
            \/ chunk_count < MIN_CHUNK_THRESHOLD
         THEN "partial"
    ELSE "ready"

chunk_status(page_count, low_text_pages, chunk_count) ==
    IF chunk_count <= 0 THEN "failed"
    ELSE IF (IF page_count > 0 THEN 5 * Len(low_text_pages) > page_count ELSE TRUE)
            \/ chunk_count < MIN_CHUNK_THRESHOLD
         THEN "partial"
    ELSE "ready"

RECURSIVE low_text_pages_from(_, _)
low_text_pages_from(pages, p) ==
    IF p > Len(pages) THEN <<>>
    ELSE (IF pages[p].word_count < LOW_TEXT_PAGE_WORD_THRESHOLD
          THEN << pages[p].page_number >> ELSE <<>>)
         \o low_text_pages_from(pages, p + 1)

(***************************************************************************)
(* split_batches: the k-th batch (k >= 1) of items cut into batch_size.    *)
(***************************************************************************)
split_batch(items, batch_size, k) ==
    SubSeq(items, (k - 1) * batch_size + 1, Min2(k * batch_size, Len(items)))

num_batches(items, batch_size) == (Len(items) + batch_size - 1) \div batch_size

(***************************************************************************)
(* The embedding provider answers a batch with one item per text, each     *)
(* carrying its index in the batch, in an order of its own choosing;       *)
(* embed_batch sorts the items by index and keeps the embeddings.          *)
(***************************************************************************)
embedding_of(text) == << "emb", text >>

Permutations1(n) == { f \in [1..n -> 1..n] : \A i, j \in 1..n : f[i] = f[j] => i = j }

provider_responses(texts) ==
    { [k \in 1..Len(texts) |-> [index |-> perm[k] - 1, embedding |-> embedding_of(texts[perm[k]])]]
        : perm \in Permutations1(Len(texts)) }

\* mutant: the items are taken in the order of the response
sorted_by_index_unsorted(data) == data

sorted_by_index(data) ==
    [k \in 1..Len(data) |-> data[CHOOSE j \in 1..Len(data) : data[j].index = k - 1]]

embed_batch(data) ==
    LET ordered == sorted_by_index(data)
    IN  [k \in 1..Len(ordered) |-> ordered[k].embedding]

(***************************************************************************)
(* State.                                                                  *)
(*   manual_documents, manual_chunks : the two relations of the store      *)
(*   next_id         : the id the store gives to the next inserted row     *)
(*   file_hash       : the current content (hash) of every PDF file        *)
(*   pc, runs        : position of main(), number of runs started          *)
(*   args, totals    : parsed command line, the counters of main()         *)
(*   fi              : index in pdf_files of the source being handled      *)
(*   existing_doc .. upsert_no : the locals of the loop body               *)
(*   outcome         : for every file, the log line its handling ended     *)
(*                     with in the current run ([skip], [ok], [warn], ...) *)
(*   exit_status     : how the last run of main() ended                    *)
(*   pre             : the store as it was when the handling of the        *)
(*                     current source began                                *)
(*   embed_calls     : embedding requests made for the current source      *)
(*   faults, disturbed : failures injected so far / in the current source  *)
(*   edits           : replacements of file contents so far                *)
(*   last_written    : history: for every document id, the dedup keys and  *)
(*                     chunking parameters of its last successful write    *)
(*   resume          : history: the version a crash left fully chunked but *)
(*                     not yet activated                                   *)
(*   fn              : a call of one of the pure functions examined on its *)
(*                     own (name, arguments, result); no call in main()    *)
(***************************************************************************)
VARIABLES manual_documents, manual_chunks, next_id, file_hash,
          pc, runs, args, totals, fi,
          existing_doc, chunks, status, warnings, document_id, version,
          embeddings, attempt, chunk_payloads, upsert_no,
          outcome, exit_status, pre, embed_calls, faults, disturbed, edits,
          last_written, resume, fn

store    == << manual_documents, manual_chunks, next_id >>
locals   == << existing_doc, chunks, status, warnings, document_id, version,
               embeddings, attempt, chunk_payloads, upsert_no >>
hist     == << last_written, resume >>
vars     == << manual_documents, manual_chunks, next_id, file_hash,
               pc, runs, args, totals, fi,
               existing_doc, chunks, status, warnings, document_id, version,
               embeddings, attempt, chunk_payloads, upsert_no,
               outcome, exit_status, pre, embed_calls, faults, disturbed, edits,
               last_written, resume, fn >>

NoDoc == [id |-> 0, version |-> 0, is_active |-> FALSE]

NoArgs == [dry_run |-> FALSE, force |-> FALSE, chunk_words |-> 0, overlap_words |-> 0,
           embed_batch_size |-> 0, upsert_batch_size |-> 0]

ZeroTotals == [processed |-> 0, skipped |-> 0, failed |-> 0,
               documents_written |-> 0, chunks_written |-> 0]

NoPre == [documents |-> {}, chunks |-> {}]

NoOutcome == [i \in 1..NumFiles |-> "none"]

NoResume == [fi |-> 0, id |-> 0, version |-> 0, source_sha256 |-> 0, seen |-> FALSE]

\* resume is dropped once the first later handling of its source is over
AgeResume == IF resume.seen THEN NoResume ELSE resume

NoCall == [op |-> "none", arg |-> <<>>, done |-> FALSE, out |-> <<>>]

InitMain ==
    /\ manual_documents = {}
    /\ manual_chunks = {}
    /\ next_id = 1
    /\ file_hash = [i \in 1..NumFiles |-> 1]
    /\ pc = "idle"
    /\ runs = 0
    /\ args = NoArgs
    /\ totals = ZeroTotals
    /\ fi = 0
    /\ existing_doc = NoDoc
    /\ chunks = <<>>
    /\ status = ""
    /\ warnings = <<>>
    /\ document_id = 0
    /\ version = 0
    /\ embeddings = <<>>
    /\ attempt = 0
    /\ chunk_payloads = <<>>
    /\ upsert_no = 0
    /\ outcome = NoOutcome
    /\ exit_status = "none"
    /\ pre = NoPre
    /\ embed_calls = 0
    /\ faults = 0
    /\ disturbed = FALSE
    /\ edits = 0
    /\ last_written = {}
    /\ resume = NoResume

Init == InitMain /\ fn = NoCall

ResetLocals ==
    /\ existing_doc' = NoDoc
    /\ chunks' = <<>>
    /\ status' = ""
    /\ warnings' = <<>>
    /\ document_id' = 0
    /\ version' = 0
    /\ embeddings' = <<>>
    /\ attempt' = 0
    /\ chunk_payloads' = <<>>
    /\ upsert_no' = 0

(***************************************************************************)
(* Failure injection: a collaborator call may fail if the handling of the  *)
(* current source was already hit by a failure or the budget allows one.   *)
(***************************************************************************)
CanFault == disturbed \/ faults < MaxFaults

Fault ==
    /\ CanFault
    /\ faults' = IF disturbed THEN faults ELSE faults + 1
    /\ disturbed' = TRUE

NoFault == UNCHANGED << faults, disturbed >>

(***************************************************************************)
(* Between two runs somebody replaces the content of a PDF file.           *)
(***************************************************************************)
EditFile(i, h) ==
    /\ pc = "idle"
    /\ runs < MaxRuns
    /\ edits < MaxEdits
    /\ file_hash[i] # h
    /\ file_hash' = [file_hash EXCEPT ![i] = h]
    /\ edits' = edits + 1
    /\ UNCHANGED << store, pc, runs, args, totals, fi, locals,
                    outcome, exit_status, pre, embed_calls, faults, disturbed, hist, fn >>

(***************************************************************************)
(* validate_batch_sizes                                                    *)
(***************************************************************************)
\* mutant: the check of overlap_words against chunk_words is missing
validate_batch_sizes_no_overlap_check(embed_batch_size, upsert_batch_size, chunk_words, overlap_words) ==
    /\ ~(embed_batch_size <= 0 \/ upsert_batch_size <= 0)
    /\ ~(chunk_words <= 0)
    /\ ~(overlap_words < 0)

validate_batch_sizes(embed_batch_size, upsert_batch_size, chunk_words, overlap_words) ==
    /\ ~(embed_batch_size <= 0 \/ upsert_batch_size <= 0)
    /\ ~(chunk_words <= 0)
    /\ ~(overlap_words < 0)
    /\ ~(overlap_words >= chunk_words)

ArgsSet ==
    [dry_run : BOOLEAN, force : BOOLEAN,
     chunk_words : 0..MaxChunkWords, overlap_words : -1..MaxOverlapWords,
     embed_batch_size : 0..MaxBatchSize, upsert_batch_size : 0..MaxBatchSize]

(***************************************************************************)
(* main(), lines 510-551: parse the arguments, validate them, list the     *)
(* PDF files, create the clients, zero the totals.                         *)
(***************************************************************************)
StartRun(a) ==
    /\ pc = "idle"
    /\ runs < MaxRuns
    /\ runs' = runs + 1
    /\ IF validate_batch_sizes(a.embed_batch_size, a.upsert_batch_size,
                               a.chunk_words, a.overlap_words)
       THEN /\ pc' = "loop"
            /\ args' = a
            /\ fi' = 1
            /\ exit_status' = "running"
       ELSE /\ pc' = "idle"
            /\ args' = NoArgs
            /\ fi' = 0
            /\ exit_status' = "config_error"
    /\ totals' = ZeroTotals
    /\ outcome' = NoOutcome
    /\ pre' = NoPre
    /\ embed_calls' = 0
    /\ disturbed' = FALSE
    /\ UNCHANGED << store, file_hash, edits, fn, hist, locals, faults >>

(***************************************************************************)
(* End of the for loop, lines 695-707: print the summary, return 0 or 1.   *)
(***************************************************************************)
\* mutant: a skipped source makes the exit code non-zero as well
exit_code_counts_skipped(t) ==
    IF t.failed = 0 /\ t.skipped = 0 THEN "exit0" ELSE "exit1"

\* line 707: return 0 if totals["failed"] == 0 else 1
exit_code(t) == IF t.failed = 0 THEN "exit0" ELSE "exit1"

Finish ==
    /\ pc = "loop"
    /\ fi > NumFiles
    /\ pc' = "idle"
    /\ exit_status' = exit_code(totals)
    /\ args' = NoArgs
    /\ fi' = 0
    /\ ResetLocals
    /\ pre' = NoPre
    /\ embed_calls' = 0
    /\ disturbed' = FALSE
    /\ resume' = AgeResume
    /\ UNCHANGED << store, file_hash, edits, fn, last_written, runs, totals, outcome, faults >>

\* what every way of leaving the loop body shares: go to the next file
NextSource(result) ==
    /\ pc' = "loop"
    /\ fi' = fi + 1
    /\ outcome' = [outcome EXCEPT ![fi] = result]

\* the handler of line 690: count a failure, log it, continue
IngestFailed ==
    /\ Fault
    /\ totals' = [totals EXCEPT !.failed = @ + 1]
    /\ NextSource("ingest_failed")

(***************************************************************************)
(* The store primitives, as the relations they leave behind.               *)
(***************************************************************************)
\* mutant: the lookup also filters on is_active
get_existing_doc_for_hash_active_only(documents, source_key, source_sha256) ==
    LET rows == { d \in documents :
                    d.source_key = source_key /\ d.source_sha256 = source_sha256 /\ d.is_active }
    IN  IF rows = {} THEN { NoDoc }
        ELSE { [id |-> d.id, version |-> d.version, is_active |-> d.is_active] : d \in rows }

\* rows get_existing_doc_for_hash may return: .eq(source_key).eq(sha).limit(1)
get_existing_doc_for_hash(documents, source_key, source_sha256) ==
    LET rows == { d \in documents :
                    d.source_key = source_key /\ d.source_sha256 = source_sha256 }
    IN  IF rows = {} THEN { NoDoc }
        ELSE { [id |-> d.id, version |-> d.version, is_active |-> d.is_active] : d \in rows }

\* mutant: the query also filters on is_active
get_next_version_active_only(documents, source_key) ==
    LET rows == { d \in documents : d.source_key = source_key /\ d.is_active }
    IN  IF rows = {} THEN 1
        ELSE (CHOOSE d \in rows : \A e \in rows : e.version <= d.version).version + 1

get_next_version(documents, source_key) ==
    LET rows == { d \in documents : d.source_key = source_key }
    IN  IF rows = {} THEN 1
        ELSE (CHOOSE d \in rows : \A e \in rows : e.version <= d.version).version + 1

\* mutant: the new row is inserted as the active one
insert_document_row_active(documents, id, source_key, source_sha256, ver, st, warns) ==
    documents \cup
      { [id |-> id, source_key |-> source_key, source_sha256 |-> source_sha256,
         version |-> ver, extraction_status |-> st, extraction_warnings |-> warns,
         is_active |-> TRUE] }

insert_document_row(documents, id, source_key, source_sha256, ver, st, warns) ==
    documents \cup
      { [id |-> id, source_key |-> source_key, source_sha256 |-> source_sha256,
         version |-> ver, extraction_status |-> st, extraction_warnings |-> warns,
         is_active |-> FALSE] }

update_document_row(documents, id, st, warns, is_active) ==
    { IF d.id = id
      THEN [d EXCEPT !.extraction_status = st, !.extraction_warnings = warns,
                     !.is_active = is_active]
      ELSE d : d \in documents }

\* mutant: .eq("id", ...) written for .neq("id", ...)
deactivate_other_versions_eq_id(documents, source_key, current_document_id) ==
    { IF d.source_key = source_key /\ d.id = current_document_id /\ d.is_active
      THEN [d EXCEPT !.is_active = FALSE]
      ELSE d : d \in documents }

deactivate_other_versions(documents, source_key, current_document_id) ==
    { IF d.source_key = source_key /\ d.id # current_document_id /\ d.is_active
      THEN [d EXCEPT !.is_active = FALSE]
      ELSE d : d \in documents }

\* mutant: the delete filters on chunk_index in place of document_id
replace_chunks_for_document_wrong_column(rows, id) ==
    { r \in rows : r.chunk_index # id }

replace_chunks_for_document(rows, id) ==
    { r \in rows : r.document_id # id }

\* one .upsert(batch, on_conflict="source_ref") call
upsert_batch(rows, batch) ==
    LET new == { batch[k] : k \in 1..Len(batch) }
    IN  { r \in rows : \A n \in new : n.source_ref # r.source_ref } \cup new

\* mutant: the dedup key carries the number of the run in place of the version
build_chunk_payloads_run_keyed(doc_slug, ver, id, cs, embs) ==
    [idx \in 1..Len(cs) |->
        [source_ref  |-> << doc_slug, runs, cs[idx].page_start, cs[idx].page_end,
                            cs[idx].chunk_index >>,
         section     |-> cs[idx].section,
         content     |-> cs[idx].content,
         embedding   |-> embs[idx],
         document_id |-> id,
         chunk_index |-> cs[idx].chunk_index,
         page_start  |-> cs[idx].page_start,
         page_end    |-> cs[idx].page_end,
         token_count |-> cs[idx].token_count]]

\* lines 654-671: the chunk rows of the current source
build_chunk_payloads(doc_slug, ver, id, cs, embs) ==
    [idx \in 1..Len(cs) |->
        [source_ref  |-> << doc_slug, ver, cs[idx].page_start, cs[idx].page_end,
                            cs[idx].chunk_index >>,
         section     |-> cs[idx].section,
         content     |-> cs[idx].content,
         embedding   |-> embs[idx],
         document_id |-> id,
         chunk_index |-> cs[idx].chunk_index,
         page_start  |-> cs[idx].page_start,
         page_end    |-> cs[idx].page_end,
         token_count |-> cs[idx].token_count]]

(***************************************************************************)
(* The loop body of main(), one action per collaborator call.              *)
(***************************************************************************)
source_key == source_key_of(fi)
source_sha256 == file_hash[fi]

\* lines 553-559
\* mutant: the store client is created in a dry run as well
supabase_in_dry_run == TRUE

\* lines 529-543: the store and embedding clients exist only when not dry_run
supabase == ~args.dry_run

BeginSource ==
    /\ pc = "loop"
    /\ fi <= NumFiles
    /\ pc' = IF supabase THEN "lookup" ELSE "parse"
    /\ ResetLocals
    /\ pre' = [documents |-> manual_documents, chunks |-> manual_chunks]
    /\ embed_calls' = 0
    /\ disturbed' = FALSE
    /\ UNCHANGED << store, file_hash, edits, fn, runs, args, totals, fi, outcome, exit_status,
                    faults, last_written >>
    /\ resume' = IF resume.seen THEN NoResume
                 ELSE IF resume.fi = fi THEN [resume EXCEPT !.seen = TRUE]
                 ELSE resume

\* mutant: the "not" in front of force is missing
skip_source_force_inverted(doc, force) == doc # NoDoc /\ doc.is_active /\ force

\* mutant: any existing row is skipped, active or not
skip_source_any_row(doc, force) == doc # NoDoc /\ ~force

\* lines 560-564
skip_source(doc, force) == doc # NoDoc /\ doc.is_active /\ ~force

LookupOk ==
    /\ pc = "lookup"
    /\ \E doc \in get_existing_doc_for_hash(manual_documents, source_key, source_sha256) :
         /\ existing_doc' = doc
         /\ IF skip_source(doc, args.force)
            THEN /\ totals' = [totals EXCEPT !.skipped = @ + 1]
                 /\ NextSource("skipped")
            ELSE /\ pc' = "parse"
                 /\ UNCHANGED << totals, fi, outcome >>
    /\ NoFault
    /\ UNCHANGED << store, file_hash, edits, fn, hist, runs, args, chunks, status, warnings, document_id,
                    version, embeddings, attempt, chunk_payloads, upsert_no,
                    exit_status, pre, embed_calls >>

\* what is left of the process when main() is left without reaching line 695
LeaveRun(how) ==
    /\ pc' = "idle"
    /\ exit_status' = how
    /\ args' = NoArgs
    /\ fi' = 0
    /\ ResetLocals
    /\ pre' = NoPre
    /\ embed_calls' = 0
    /\ disturbed' = FALSE

\* the store call of line 560 raises: no handler encloses it
LookupRaises ==
    /\ pc = "lookup"
    /\ CanFault
    /\ faults' = IF disturbed THEN faults ELSE faults + 1
    /\ LeaveRun("uncaught")
    /\ outcome' = [outcome EXCEPT ![fi] = "uncaught"]
    /\ resume' = AgeResume
    /\ UNCHANGED << store, file_hash, edits, fn, last_written, runs, totals >>

\* lines 566-598
ParseOk ==
    /\ pc = "parse"
    /\ LET pages == extract_page_records(source_sha256)
           tokens == build_token_stream(pages)
           cs == build_chunks(tokens, args.chunk_words, args.overlap_words)
           low_text_pages == low_text_pages_from(pages, 1)
       IN  /\ chunks' = cs
           /\ warnings' = IF low_text_pages # <<>>
                          THEN << << "low_text_pages", low_text_pages >> >> ELSE <<>>
           /\ status' = chunk_status(Len(pages), low_text_pages, Len(cs))
    /\ IF args.dry_run
       THEN /\ totals' = [totals EXCEPT !.processed = @ + 1]
            /\ NextSource("dry_run")
            /\ UNCHANGED << document_id, version >>
       ELSE IF existing_doc # NoDoc
       THEN /\ document_id' = existing_doc.id
            /\ version' = existing_doc.version
            /\ pc' = "replace_chunks"
            /\ UNCHANGED << totals, fi, outcome >>
       ELSE /\ pc' = "get_next_version"
            /\ UNCHANGED << totals, fi, outcome, document_id, version >>
    /\ NoFault
    /\ UNCHANGED << store, file_hash, edits, fn, hist, runs, args, existing_doc, embeddings, attempt,
                    chunk_payloads, upsert_no, exit_status, pre, embed_calls >>

\* lines 573-576
ParseRaises ==
    /\ pc = "parse"
    /\ Fault
    /\ totals' = [totals EXCEPT !.failed = @ + 1]
    /\ NextSource("parse_failed")
    /\ UNCHANGED << store, file_hash, edits, fn, hist, runs, args, locals, exit_status, pre, embed_calls >>

\* mutant: the "if not chunks" branch is missing
AfterRowWritten_unchecked == "embed"

\* mutant: only a 'ready' document goes on to embedding and activation
AfterRowWritten_status_gated ==
    IF chunks = <<>> \/ status # "ready" THEN "mark_failed" ELSE "embed"

\* where lines 630-645 go after the row is written
AfterRowWritten == IF chunks = <<>> THEN "mark_failed" ELSE "embed"

\* line 604
ReplaceChunks ==
    /\ pc = "replace_chunks"
    /\ manual_chunks' = replace_chunks_for_document(manual_chunks, document_id)
    /\ pc' = "update_inactive"
    /\ NoFault
    /\ UNCHANGED << manual_documents, next_id, file_hash, edits, fn, hist, runs, args, totals, fi, locals,
                    outcome, exit_status, pre, embed_calls >>

\* lines 605-614
UpdateInactive ==
    /\ pc = "update_inactive"
    /\ manual_documents' = update_document_row(manual_documents, document_id, status, warnings, FALSE)
    /\ pc' = AfterRowWritten
    /\ NoFault
    /\ UNCHANGED << manual_chunks, next_id, file_hash, edits, fn, hist, runs, args, totals, fi, locals,
                    outcome, exit_status, pre, embed_calls >>

\* line 616
GetNextVersion ==
    /\ pc = "get_next_version"
    /\ version' = get_next_version(manual_documents, source_key)
    /\ pc' = "insert"
    /\ NoFault
    /\ UNCHANGED << store, file_hash, edits, fn, hist, runs, args, totals, fi, existing_doc, chunks, status,
                    warnings, document_id, embeddings, attempt, chunk_payloads, upsert_no,
                    outcome, exit_status, pre, embed_calls >>

\* lines 617-628
InsertRow ==
    /\ pc = "insert"
    /\ manual_documents' = insert_document_row(manual_documents, next_id, source_key,
                                               source_sha256, version, status, warnings)
    /\ document_id' = next_id
    /\ next_id' = next_id + 1
    /\ pc' = AfterRowWritten
    /\ NoFault
    /\ UNCHANGED << manual_chunks, file_hash, edits, fn, hist, runs, args, totals, fi, existing_doc, chunks,
                    status, warnings, version, embeddings, attempt, chunk_payloads, upsert_no,
                    outcome, exit_status, pre, embed_calls >>

\* lines 630-643
MarkFailed ==
    /\ pc = "mark_failed"
    /\ manual_documents' = update_document_row(manual_documents, document_id, "failed",
                                               Append(warnings, << "no_usable_chunks", <<>> >>), FALSE)
    /\ totals' = [totals EXCEPT !.failed = @ + 1]
    /\ NextSource("no_usable_chunks")
    /\ NoFault
    /\ UNCHANGED << manual_chunks, next_id, file_hash, edits, fn, hist, runs, args, locals,
                    exit_status, pre, embed_calls >>

\* lines 647-652: one request to the embedding provider that succeeds
chunk_texts == [k \in 1..Len(chunks) |-> chunks[k].content]

current_embed_batch ==
    split_batch(chunk_texts, args.embed_batch_size, (Len(embeddings) \div args.embed_batch_size) + 1)

EmbedOk ==
    /\ pc = "embed"
    /\ \E data \in provider_responses(current_embed_batch) :
         LET embs == embeddings \o embed_batch(data)
         IN  /\ embeddings' = embs
             /\ IF Len(embs) >= Len(chunk_texts)
                THEN /\ chunk_payloads' = build_chunk_payloads(slugify(pdf_files[fi]), version,
                                                               document_id, chunks, embs)
                     /\ upsert_no' = 1
                     /\ pc' = "upsert"
                ELSE /\ pc' = "embed"
                     /\ UNCHANGED << chunk_payloads, upsert_no >>
    /\ attempt' = 0
    /\ embed_calls' = embed_calls + 1
    /\ NoFault
    /\ UNCHANGED << store, file_hash, edits, fn, hist, runs, args, totals, fi, existing_doc, chunks, status,
                    warnings, document_id, version, outcome, exit_status, pre >>

\* mutant: stop_after_attempt(3)
retry_stops_after_three(failed_attempts) == failed_attempts >= EMBED_MAX_ATTEMPTS - 1

\* line 388: a failed request is retried until stop_after_attempt, then re-raised
retry_stops(failed_attempts) == failed_attempts >= EMBED_MAX_ATTEMPTS

EmbedFails ==
    /\ pc = "embed"
    /\ Fault
    /\ embed_calls' = embed_calls + 1
    /\ attempt' = attempt + 1
    /\ IF retry_stops(attempt + 1)
       THEN /\ totals' = [totals EXCEPT !.failed = @ + 1]
            /\ NextSource("ingest_failed")
       ELSE UNCHANGED << pc, totals, fi, outcome >>
    /\ UNCHANGED << store, file_hash, edits, fn, hist, runs, args, existing_doc, chunks, status, warnings,
                    document_id, version, embeddings, chunk_payloads, upsert_no,
                    exit_status, pre >>

\* line 673, upsert_chunk_rows: one upsert call per batch
UpsertBatch ==
    /\ pc = "upsert"
    /\ manual_chunks' = upsert_batch(manual_chunks,
                                     split_batch(chunk_payloads, args.upsert_batch_size, upsert_no))
    /\ IF upsert_no >= num_batches(chunk_payloads, args.upsert_batch_size)
       THEN pc' = "deactivate" /\ upsert_no' = upsert_no
       ELSE pc' = "upsert" /\ upsert_no' = upsert_no + 1
    /\ NoFault
    /\ UNCHANGED << manual_documents, next_id, file_hash, edits, fn, hist, runs, args, totals, fi,
                    existing_doc, chunks, status, warnings, document_id, version,
                    embeddings, attempt, chunk_payloads,
                    outcome, exit_status, pre, embed_calls >>

\* line 674
Deactivate ==
    /\ pc = "deactivate"
    /\ manual_documents' = deactivate_other_versions(manual_documents, source_key, document_id)
    /\ pc' = "activate"
    /\ NoFault
    /\ UNCHANGED << manual_chunks, next_id, file_hash, edits, fn, hist, runs, args, totals, fi, locals,
                    outcome, exit_status, pre, embed_calls >>

\* lines 675-689
Activate ==
    /\ pc = "activate"
    /\ manual_documents' = update_document_row(manual_documents, document_id, status, warnings, TRUE)
    /\ totals' = [totals EXCEPT !.documents_written = @ + 1,
                                !.chunks_written = @ + Len(chunk_payloads),
                                !.processed = @ + 1]
    /\ NextSource("processed")
    /\ NoFault
    /\ LET old == { w \in last_written : w.id = document_id }
           params == << args.chunk_words, args.overlap_words >>
       IN  last_written' = (last_written \ old) \cup
             { [id |-> document_id,
                refs |-> { chunk_payloads[k].source_ref : k \in 1..Len(chunk_payloads) },
                params |-> params,
                prev_refs |-> IF old = {} THEN {} ELSE (CHOOSE w \in old : TRUE).refs,
                prev_params |-> IF old = {} THEN << 0, 0 >> ELSE (CHOOSE w \in old : TRUE).params] }
    /\ UNCHANGED << manual_chunks, next_id, file_hash, edits, fn, resume, runs, args, locals,
                    exit_status, pre, embed_calls >>

\* lines 690-693: a store call inside the try block raises
StoreCallPcs == { "replace_chunks", "update_inactive", "get_next_version", "insert",
                  "mark_failed", "upsert", "deactivate", "activate" }

StoreCallRaises ==
    /\ pc \in StoreCallPcs
    /\ IngestFailed
    /\ UNCHANGED << store, file_hash, edits, fn, hist, runs, args, locals, exit_status, pre, embed_calls >>

\* the process is stopped (killed, power loss) in the middle of a run
Crash ==
    /\ pc # "idle"
    /\ faults < MaxFaults
    /\ faults' = faults + 1
    /\ LeaveRun("crashed")
    /\ resume' = IF pc = "deactivate" /\ existing_doc = NoDoc
                 THEN [fi |-> fi, id |-> document_id, version |-> version,
                       source_sha256 |-> source_sha256, seen |-> FALSE]
                 ELSE AgeResume
    /\ UNCHANGED << store, file_hash, edits, fn, last_written, runs, totals, outcome >>

Next ==
    \/ \E i \in 1..NumFiles, h \in Hashes : EditFile(i, h)
    \/ \E a \in ArgsSet : StartRun(a)
    \/ BeginSource
    \/ LookupOk
    \/ LookupRaises
    \/ ParseOk
    \/ ParseRaises
    \/ ReplaceChunks
    \/ UpdateInactive
    \/ GetNextVersion
    \/ InsertRow
    \/ MarkFailed
    \/ EmbedOk
    \/ EmbedFails
    \/ UpsertBatch
    \/ Deactivate
    \/ Activate
    \/ StoreCallRaises
    \/ Crash
    \/ Finish

Spec == Init /\ [][Next]_vars

(***************************************************************************)
(* The pure functions on their own.  A behaviour of SpecFn is one call:    *)
(* the initial state holds the function and its arguments, the one step    *)
(* applies the function.  main() stays where Init leaves it.               *)
(***************************************************************************)
\* a token stream of n tokens: the i-th word is i, two words to a page
token_stream(n) ==
    [i \in 1..n |-> [word |-> i, page_number |-> 1 + ((i - 1) \div 2), section |-> "Overview"]]

BuildChunksCalls ==
    { [op |-> "build_chunks",
       arg |-> [tokens |-> token_stream(n), max_words |-> w, overlap_words |-> o],
       done |-> FALSE, out |-> <<>>]
        : n \in 0..MaxTokens, w \in 1..MaxWindow, o \in 0..(MaxWindow - 1) }

\* token streams as build_token_stream yields them under headings: token i
\* carries the word i, two tokens to a page, and the section label secs[i]
SectionLabels == { "Overview", "SAFETY", "PARTS" }

sectioned_stream(secs) ==
    [i \in 1..Len(secs) |->
        [word |-> i, page_number |-> 1 + ((i - 1) \div 2), section |-> secs[i]]]

SectionedCalls ==
    { [op |-> "build_chunks",
       arg |-> [tokens |-> sectioned_stream(secs), max_words |-> w, overlap_words |-> o],
       done |-> FALSE, out |-> <<>>]
        : secs \in UNION { [1..n -> SectionLabels] : n \in 1..MaxSectionTokens },
          w \in 1..MaxWindow, o \in 0..(MaxWindow - 1) }

\* the documents given to build_token_stream: every paragraph is a heading
\* (of one word, with one of two labels) or a body paragraph; word j of
\* paragraph q of page p is the number 100p + 10q + j
ParagraphKinds ==
    { [heading |-> TRUE, label |-> l, n |-> 1] : l \in { "SAFETY", "PARTS" } }
    \cup { [heading |-> FALSE, label |-> "", n |-> n] : n \in 1..MaxParagraphWords }

RECURSIVE words_in(_, _)
words_in(kinds, q) == IF q > Len(kinds) THEN 0 ELSE kinds[q].n + words_in(kinds, q + 1)

page_record(p, kinds) ==
    [page_number |-> p,
     paragraphs  |-> [q \in 1..Len(kinds) |->
                        [heading |-> kinds[q].heading, label |-> kinds[q].label,
                         words |-> [j \in 1..kinds[q].n |-> 100 * p + 10 * q + j]]],
     word_count  |-> words_in(kinds, 1)]

PageKinds == UNION { [1..n -> ParagraphKinds] : n \in 0..MaxParagraphs }

BuildTokenStreamCalls ==
    { [op |-> "build_token_stream",
       arg |-> [pages |-> [p \in 1..Len(doc) |-> page_record(p, doc[p])]],
       done |-> FALSE, out |-> <<>>]
        : doc \in UNION { [1..n -> PageKinds] : n \in 0..MaxDocPages } }

\* low_text_pages is a sub-list of the page numbers 1..page_count
ChunkStatusCalls ==
    { [op |-> "chunk_status",
       arg |-> [page_count |-> n, low_text_pages |-> [j \in 1..k |-> j], chunk_count |-> c],
       done |-> FALSE, out |-> <<>>]
        : n \in 0..MaxPages, k \in 0..MaxPages, c \in 0..MaxChunkCount }

InitFn ==
    /\ InitMain
    /\ fn \in { c \in BuildChunksCalls \cup SectionedCalls :
                     c.arg.overlap_words < c.arg.max_words }
              \cup { c \in ChunkStatusCalls : Len(c.arg.low_text_pages) <= c.arg.page_count }
              \cup BuildTokenStreamCalls

mainvars == << store, file_hash, pc, runs, args, totals, fi, locals,
               outcome, exit_status, pre, embed_calls, faults, disturbed, edits, hist >>

CallBuildChunks ==
    /\ fn.op = "build_chunks"
    /\ ~fn.done
    /\ fn' = [fn EXCEPT !.done = TRUE,
                        !.out = build_chunks(fn.arg.tokens, fn.arg.max_words, fn.arg.overlap_words)]
    /\ UNCHANGED mainvars

CallChunkStatus ==
    /\ fn.op = "chunk_status"
    /\ ~fn.done
    /\ fn' = [fn EXCEPT !.done = TRUE,
                        !.out = chunk_status(fn.arg.page_count, fn.arg.low_text_pages,
                                             fn.arg.chunk_count)]
    /\ UNCHANGED mainvars

CallBuildTokenStream ==
    /\ fn.op = "build_token_stream"
    /\ ~fn.done
    /\ fn' = [fn EXCEPT !.done = TRUE, !.out = build_token_stream(fn.arg.pages)]
    /\ UNCHANGED mainvars

NextFn ==
    \/ CallBuildChunks
    \/ CallChunkStatus
    \/ CallBuildTokenStream

SpecFn == InitFn /\ [][NextFn]_vars

(***************************************************************************)
(* The embedding loop of lines 645-671 on its own: main() stands at line   *)
(* 650 in its first run, having inserted the row of its first source, with *)
(* a chunk list that is the build_chunks result of a token stream of 1 to  *)
(* MaxTokens tokens and an embed batch size of 1..MaxEmbedBatch.  The only *)
(* step is the successful embedding of the next batch, whose response the  *)
(* provider orders as it likes.                                            *)
(***************************************************************************)
InitEmbed ==
    /\ \E n \in 1..MaxTokens, w \in 1..MaxWindow, o \in 0..(MaxWindow - 1),
          b \in 1..MaxEmbedBatch :
          /\ o < w
          /\ chunks = build_chunks(token_stream(n), w, o)
          /\ args = [dry_run |-> FALSE, force |-> FALSE, chunk_words |-> w,
                     overlap_words |-> o, embed_batch_size |-> b, upsert_batch_size |-> 1]
    /\ manual_documents = insert_document_row({}, 1, source_key_of(1), 1, 1, "partial", <<>>)
    /\ manual_chunks = {}
    /\ next_id = 2
    /\ file_hash = [i \in 1..NumFiles |-> 1]
    /\ pc = "embed"
    /\ runs = 1
    /\ totals = ZeroTotals
    /\ fi = 1
    /\ existing_doc = NoDoc
    /\ status = "partial"
    /\ warnings = <<>>
    /\ document_id = 1
    /\ version = 1
    /\ embeddings = <<>>
    /\ attempt = 0
    /\ chunk_payloads = <<>>
    /\ upsert_no = 0
    /\ outcome = NoOutcome
    /\ exit_status = "running"
    /\ pre = [documents |-> {}, chunks |-> {}]
    /\ embed_calls = 0
    /\ faults = 0
    /\ disturbed = FALSE
    /\ edits = 0
    /\ last_written = {}
    /\ resume = NoResume
    /\ fn = NoCall

NextEmbed == EmbedOk

SpecEmbed == InitEmbed /\ [][NextEmbed]_vars

(***************************************************************************)
(* Vocabulary of the properties.                                           *)
(***************************************************************************)
Handled(i) == pc = "loop" /\ fi = i + 1          \* the handling of file i just ended

RowsOfKey(documents, key) == { d \in documents : d.source_key = key }

ActiveOfKey(documents, key) == { d \in documents : d.source_key = key /\ d.is_active }

RowsOfHash(documents, key, sha) ==
    { d \in documents : d.source_key = key /\ d.source_sha256 = sha }

OwnedRows(rows, id) == { r \in rows : r.document_id = id }

OwnedRefs(rows, id) == { r.source_ref : r \in OwnedRows(rows, id) }

Reconciling == pc \notin { "idle", "loop" } /\ ~args.dry_run

YieldsNoChunks(i) ==
    build_chunks(build_token_stream(extract_page_records(file_hash[i])),
                 args.chunk_words, args.overlap_words) = <<>>

(***************************************************************************)
(* C1.  After the handling of a source that ended with [ok], exactly one   *)
(* document row of its source_key is active; this stays so for the rest of *)
(* the run and holds for first versions, version bumps and the             *)
(* re-activation of an older version alike.                                *)
(***************************************************************************)
C1_ExactlyOneActiveAfterSuccess ==
    \A i \in 1..NumFiles :
        outcome[i] = "processed" =>
            Cardinality(ActiveOfKey(manual_documents, source_key_of(i))) = 1

\* an older version (not the highest one) was re-activated
C1_Witness ==
    \E i \in 1..NumFiles :
        /\ Handled(i)
        /\ outcome[i] = "processed"
        /\ existing_doc # NoDoc
        /\ \E d \in RowsOfKey(manual_documents, source_key_of(i)) :
               d.version > version /\ ~d.is_active /\ d.extraction_status # "failed"

(***************************************************************************)
(* C2 (as claimed).  The row under reconciliation, while it is active,     *)
(* owns at least one chunk row in every state between two store calls.     *)
(* This is the claim restricted to the row being processed.                *)
(***************************************************************************)
C2_ActiveRowNeverWithoutChunks ==
    \A d \in manual_documents :
        (Reconciling /\ d.id = document_id /\ d.is_active)
            => OwnedRows(manual_chunks, d.id) # {}

(***************************************************************************)
(* C3.  When the content of a source yields no chunk, its handling makes   *)
(* no embedding request and writes no chunk row, the row of this           *)
(* (source_key, hash) is not active, and every version of the source_key   *)
(* that was active before is still active; when no call failed the source  *)
(* is logged as having no usable chunks and the row is marked failed with  *)
(* the warning no_usable_chunks appended.                                  *)
(***************************************************************************)
C3_ZeroChunksKeepsActiveVersion ==
    \A i \in 1..NumFiles :
        (Handled(i) /\ ~args.dry_run /\ YieldsNoChunks(i)) =>
            /\ embed_calls = 0
            /\ manual_chunks \subseteq pre.chunks
            /\ \A d \in RowsOfHash(manual_documents, source_key_of(i), file_hash[i]) : ~d.is_active
            /\ \A d \in ActiveOfKey(pre.documents, source_key_of(i)) :
                   \E e \in manual_documents : e.id = d.id /\ e.is_active
            /\ ~disturbed =>
                 /\ outcome[i] = "no_usable_chunks"
                 /\ \E d \in RowsOfHash(manual_documents, source_key_of(i), file_hash[i]) :
                        /\ d.extraction_status = "failed"
                        /\ d.extraction_warnings # <<>>
                        /\ d.extraction_warnings[Len(d.extraction_warnings)]
                               = << "no_usable_chunks", <<>> >>

\* a zero-chunk version was recorded while another version stayed active
C3_Witness ==
    \E i \in 1..NumFiles :
        /\ Handled(i) /\ ~args.dry_run /\ YieldsNoChunks(i)
        /\ outcome[i] = "no_usable_chunks"
        /\ ActiveOfKey(pre.documents, source_key_of(i)) # {}
        /\ ActiveOfKey(manual_documents, source_key_of(i)) # {}

(***************************************************************************)
(* C4.  In a reconciliation run (one that is connected to the store, not   *)
(* a --dry-run), if a row of the source's (source_key, hash) exists and is *)
(* active and --force is not given, the source is counted as skipped, the  *)
(* two relations are left exactly as they were and no embedding request is *)
(* made; so a second run over unchanged content adds no document row and   *)
(* writes no chunk row.                                                    *)
(***************************************************************************)
ActiveRowExisted(i) ==
    \E d \in RowsOfHash(pre.documents, source_key_of(i), file_hash[i]) : d.is_active

SkippedUntouched(i) ==
    /\ outcome[i] = "skipped"
    /\ totals.skipped >= 1
    /\ manual_documents = pre.documents
    /\ manual_chunks = pre.chunks
    /\ embed_calls = 0

C4_IdempotentSkip ==
    \A i \in 1..NumFiles :
        (Handled(i) /\ ActiveRowExisted(i) /\ ~args.force /\ ~args.dry_run)
            => SkippedUntouched(i)

\* a second run over unchanged content skipped the source
C4_Witness ==
    \E i \in 1..NumFiles :
        /\ Handled(i) /\ ActiveRowExisted(i) /\ ~args.force /\ ~args.dry_run
        /\ outcome[i] = "skipped"
        /\ OwnedRows(manual_chunks, existing_doc.id) # {}

(***************************************************************************)
(* C5.  A successful reprocess of a (source_key, hash) that already has a  *)
(* row reuses the id and the version of that row and inserts no document   *)
(* row; when the chunking parameters are those of the previous successful  *)
(* write of that version, the version owns exactly the dedup keys, and as  *)
(* many chunk rows, as after that write.                                   *)
(***************************************************************************)
C5_ForcedReprocessSameKeys ==
    \A i \in 1..NumFiles :
        \A d \in RowsOfHash(pre.documents, source_key_of(i), file_hash[i]) :
            (Handled(i) /\ outcome[i] = "processed") =>
                /\ document_id = d.id
                /\ version = d.version
                /\ Cardinality(manual_documents) = Cardinality(pre.documents)
                /\ \A w \in last_written :
                       (w.id = d.id /\ w.prev_params = w.params) =>
                           /\ OwnedRefs(manual_chunks, d.id) = w.prev_refs
                           /\ Cardinality(OwnedRows(manual_chunks, d.id))
                                  = Cardinality(w.prev_refs)

\* the active version was reprocessed under --force with unchanged parameters
C5_Witness ==
    \E i \in 1..NumFiles :
        /\ Handled(i) /\ outcome[i] = "processed" /\ args.force
        /\ ActiveRowExisted(i)
        /\ \E w \in last_written :
               /\ w.id = document_id /\ w.prev_params = w.params
               /\ Cardinality(w.prev_refs) >= 2
               /\ OwnedRefs(manual_chunks, document_id) = w.prev_refs

(***************************************************************************)
(* C6.  Between the chunk upsert of a new version and the deactivate step  *)
(* (where a crash leaves the store as it is) the previously active version *)
(* is still active with the chunk rows it had, and the new version is      *)
(* inactive and owns its complete chunk set.  The first later handling of  *)
(* the same content that meets no failure does not skip the row, processes *)
(* it under the same id and version, and leaves it the only active version *)
(* of the source_key.                                                      *)
(***************************************************************************)
PayloadRows == { chunk_payloads[k] : k \in 1..Len(chunk_payloads) }

C6_CrashResumable ==
    /\ (pc = "deactivate" /\ existing_doc = NoDoc) =>
          /\ \A d \in ActiveOfKey(pre.documents, source_key) :
                 /\ d \in manual_documents
                 /\ OwnedRows(manual_chunks, d.id) = OwnedRows(pre.chunks, d.id)
          /\ \E n \in manual_documents : n.id = document_id /\ ~n.is_active
          /\ OwnedRows(manual_chunks, document_id) = PayloadRows
          /\ Cardinality(PayloadRows) = Len(chunks)
    /\ \A i \in 1..NumFiles :
          (/\ Handled(i) /\ resume.fi = i /\ resume.seen
           /\ file_hash[i] = resume.source_sha256
           /\ ~disturbed /\ ~args.dry_run) =>
              /\ outcome[i] = "processed"
              /\ existing_doc.id = resume.id
              /\ document_id = resume.id
              /\ version = resume.version
              /\ \A d \in RowsOfKey(manual_documents, source_key_of(i)) :
                     d.is_active <=> d.id = resume.id

\* a run resumed a version that a crash had left chunked but inactive,
\* and took the activation over from the older version
C6_Witness ==
    \E i \in 1..NumFiles :
        /\ Handled(i) /\ resume.fi = i /\ resume.seen
        /\ file_hash[i] = resume.source_sha256
        /\ outcome[i] = "processed"
        /\ document_id = resume.id
        /\ \E d \in ActiveOfKey(pre.documents, source_key_of(i)) : d.version < version

(***************************************************************************)
(* C7 (as claimed).  While a source is handled, the document rows and the  *)
(* chunk rows that belonged to another source_key when its handling began  *)
(* stay as they were.                                                      *)
(***************************************************************************)
C7_OnlyOwnSourceKeyRows ==
    Reconciling =>
        /\ \A d \in pre.documents : d.source_key # source_key => d \in manual_documents
        /\ \A r \in pre.chunks :
               (\E d \in pre.documents : d.id = r.document_id /\ d.source_key # source_key)
                   => r \in manual_chunks

(***************************************************************************)
(* C8 (as claimed).  Every source whose handling raised an error is logged *)
(* as a failure and counted once, the failed counter is the number of      *)
(* sources that failed, and the run is never left through an uncaught      *)
(* error, so that the summary is printed.                                  *)
(***************************************************************************)
C8_EveryErrorIsCountedFailure ==
    /\ \A i \in 1..NumFiles : outcome[i] # "uncaught"
    /\ exit_status # "uncaught"
    /\ totals.failed = Cardinality({ i \in 1..NumFiles :
           outcome[i] \in { "parse_failed", "ingest_failed", "no_usable_chunks" } })

(***************************************************************************)
(* C9.  A batch is requested at most 4 times; the 4th failure ends the     *)
(* handling of the source as a counted ingest failure, with no chunk row   *)
(* written for it and its row not active; no upsert starts before every    *)
(* batch is embedded.                                                      *)
(***************************************************************************)
C9_EmbeddingRetryCeiling ==
    /\ pc = "embed" => attempt < 4
    /\ pc \in { "upsert", "deactivate", "activate" } => Len(embeddings) = Len(chunks)
    /\ \A i \in 1..NumFiles :
          (Handled(i) /\ attempt > 0) =>
              /\ attempt = 4
              /\ embed_calls >= 4
              /\ outcome[i] = "ingest_failed"
              /\ totals.failed >= 1
              /\ manual_chunks \subseteq pre.chunks
              /\ OwnedRows(manual_chunks, document_id) = {}
              /\ \A d \in manual_documents : d.id = document_id => ~d.is_active

\* the second batch of a source failed for good after the first was embedded
C9_Witness ==
    \E i \in 1..NumFiles :
        /\ Handled(i) /\ attempt = 4
        /\ outcome[i] = "ingest_failed"
        /\ Len(embeddings) >= 1
        /\ Len(embeddings) < Len(chunks)

(***************************************************************************)
(* C10.  A document row is inserted only when the store has no row of the  *)
(* (source_key, hash); when it has one, active or not, the handling works  *)
(* on that row's id and version.  So no two rows share a (source_key,      *)
(* hash).                                                                  *)
(***************************************************************************)
C10_RowReusedPerHash ==
    /\ \A d, e \in manual_documents :
           (d.source_key = e.source_key /\ d.source_sha256 = e.source_sha256) => d.id = e.id
    /\ pc = "insert" => RowsOfHash(manual_documents, source_key, source_sha256) = {}
    /\ pc \in { "replace_chunks", "update_inactive" } =>
           \E d \in RowsOfHash(manual_documents, source_key, source_sha256) :
               d.id = document_id /\ d.version = version
    /\ (Reconciling /\ document_id # 0) =>
           \A d \in RowsOfHash(pre.documents, source_key, source_sha256) :
               d.id = document_id /\ d.version = version

\* an inactive row is reused while the source_key has another version
C10_Witness ==
    /\ pc = "replace_chunks"
    /\ ~existing_doc.is_active
    /\ \E d \in RowsOfKey(manual_documents, source_key) : d.id # document_id /\ d.is_active

(***************************************************************************)
(* C11.  The version given to a row about to be inserted is 1 when the     *)
(* source_key has no row and otherwise one more than the highest version   *)
(* of its rows; so the rows of a source_key, failed versions included,     *)
(* carry pairwise distinct versions that are exactly 1..n.                 *)
(***************************************************************************)
VersionsOfKey(key) == { d.version : d \in RowsOfKey(manual_documents, key) }

C11_VersionsAreOneToN ==
    /\ \A i \in 1..NumFiles :
          LET rows == RowsOfKey(manual_documents, source_key_of(i))
          IN  /\ VersionsOfKey(source_key_of(i)) = 1..Cardinality(rows)
              /\ \A d, e \in rows : d.version = e.version => d.id = e.id
    /\ pc = "insert" =>
          /\ VersionsOfKey(source_key) = {} => version = 1
          /\ \A v \in VersionsOfKey(source_key) : version > v
          /\ version = Cardinality(VersionsOfKey(source_key)) + 1

\* a source_key with three versions, a failed one among them
C11_Witness ==
    \E i \in 1..NumFiles :
        /\ VersionsOfKey(source_key_of(i)) = 1..3
        /\ \E d \in RowsOfKey(manual_documents, source_key_of(i)) :
               d.extraction_status = "failed" /\ d.version < 3

(***************************************************************************)
(* C12.  For a token stream of L tokens, window W >= 1 and overlap O with  *)
(* 0 <= O < W, build_chunks returns no chunk when L = 0 and otherwise      *)
(* ceil(max(L - O, 1) / (W - O)) chunks, whose chunk_index values are      *)
(* 1, 2, ..., N in order.                                                  *)
(***************************************************************************)
CeilDiv(a, b) == (a + b - 1) \div b

BuiltChunks == fn.op = "build_chunks" /\ fn.done

C12_ChunkCount ==
    BuiltChunks =>
        LET L == Len(fn.arg.tokens)
            W == fn.arg.max_words
            O == fn.arg.overlap_words
            N == Len(fn.out)
        IN  /\ L = 0 => N = 0
            /\ L > 0 => N = CeilDiv(IF L - O >= 1 THEN L - O ELSE 1, W - O)
            /\ \A k \in 1..N : fn.out[k].chunk_index = k

\* several overlapping windows and a shorter last one
C12_Witness ==
    /\ BuiltChunks
    /\ fn.arg.overlap_words >= 1
    /\ Len(fn.out) >= 3
    /\ fn.out[Len(fn.out)].token_count < fn.arg.max_words

(***************************************************************************)
(* C13.  Once the row of the version under reconciliation is written, and  *)
(* until its first upsert call, the version owns no chunk row: what it     *)
(* owned before is deleted first.  While the upsert calls run it owns only *)
(* rows of the new chunk set, and after a handling that ended with [ok] it *)
(* owns exactly the new rows: one per chunk_index 1..N, each with the      *)
(* content of its chunk and the embedding of that content.                 *)
(***************************************************************************)
C13_FullReplaceOfChunks ==
    /\ (\/ pc \in { "update_inactive", "mark_failed", "embed" }
        \/ pc = "upsert" /\ upsert_no = 1) =>
           OwnedRows(manual_chunks, document_id) = {}
    /\ pc \in { "upsert", "deactivate", "activate" } =>
           OwnedRows(manual_chunks, document_id) \subseteq PayloadRows
    /\ \A i \in 1..NumFiles :
          (Handled(i) /\ outcome[i] = "processed") =>
              LET owned == OwnedRows(manual_chunks, document_id)
              IN  /\ owned = PayloadRows
                  /\ Cardinality(owned) = Len(chunks)
                  /\ \A k \in 1..Len(chunks) :
                        \E r \in owned :
                            /\ r.chunk_index = k
                            /\ r.content = chunks[k].content
                            /\ r.embedding = embedding_of(chunks[k].content)
                            /\ \A q \in owned : q.chunk_index = k => q = r

\* a version that owned chunk rows was reprocessed and written again
C13_Witness ==
    \E i \in 1..NumFiles :
        /\ Handled(i) /\ outcome[i] = "processed"
        /\ existing_doc # NoDoc
        /\ Cardinality(OwnedRows(pre.chunks, document_id)) >= 2
        /\ Cardinality(OwnedRows(manual_chunks, document_id)) >= 2

(***************************************************************************)
(* C14.  The step that starts a run lets the run go on only with           *)
(* embed batch size > 0, upsert batch size > 0, chunk words > 0,           *)
(* overlap words >= 0 and overlap words < chunk words; with any other      *)
(* configuration the run ends in that step with a configuration error.     *)
(* Either way the step reads and writes no store relation, hashes and      *)
(* parses no file and makes no embedding request.                          *)
(***************************************************************************)
C14_InvalidConfigAborts ==
    [][ runs' = runs + 1 =>
           /\ manual_documents' = manual_documents
           /\ manual_chunks' = manual_chunks
           /\ next_id' = next_id
           /\ embed_calls' = 0
           /\ totals' = ZeroTotals
           /\ outcome' = NoOutcome
           /\ pc' = "loop" =>
                 /\ args'.embed_batch_size > 0
                 /\ args'.upsert_batch_size > 0
                 /\ args'.chunk_words > 0
                 /\ args'.overlap_words >= 0
                 /\ args'.overlap_words < args'.chunk_words
           /\ pc' # "loop" => (pc' = "idle" /\ exit_status' = "config_error")
      ]_vars

\* a run over a filled store ended with a configuration error
C14_Witness ==
    /\ pc = "idle"
    /\ exit_status = "config_error"
    /\ manual_chunks # {}
    /\ \E d \in manual_documents : d.is_active

(***************************************************************************)
(* C15.  A run that came to the end of the source loop has exit code 0     *)
(* exactly when none of its sources ended as a parse failure, as a         *)
(* document without usable chunks or as an ingest failure, and exit code 1 *)
(* otherwise; a skipped source does not count.                             *)
(***************************************************************************)
C15_ExitCodeIffNoFailure ==
    (pc = "idle" /\ exit_status \in {"exit0", "exit1"}) =>
        /\ \A i \in 1..NumFiles : outcome[i] # "none"
        /\ exit_status = "exit0" <=>
              \A i \in 1..NumFiles :
                 outcome[i] \notin {"parse_failed", "no_usable_chunks", "ingest_failed"}
        /\ exit_status = "exit1" <=>
              \E i \in 1..NumFiles :
                 outcome[i] \in {"parse_failed", "no_usable_chunks", "ingest_failed"}

\* a run with a skipped source and no failure ended with exit code 0
C15_Witness ==
    /\ pc = "idle"
    /\ exit_status = "exit0"
    /\ \E i \in 1..NumFiles : outcome[i] = "skipped"

(***************************************************************************)
(* C16.  For every page count, set of low-text pages and chunk count the   *)
(* status is one of 'failed', 'partial', 'ready': 'failed' exactly when    *)
(* the chunk count is 0; 'partial' exactly when the chunk count is not 0   *)
(* and it is below 3 or the share of low-text pages is strictly above      *)
(* 20 per cent (a page count of 0 counting as a share of 100 per cent);    *)
(* 'ready' exactly when the chunk count is at least 3, there is a page and *)
(* at most 20 per cent of the pages are low-text.                          *)
(***************************************************************************)
C16_StatusThreeWay ==
    (fn.op = "chunk_status" /\ fn.done) =>
        LET n == fn.arg.page_count
            l == Len(fn.arg.low_text_pages)
            c == fn.arg.chunk_count
            over == n = 0 \/ 100 * l > 20 * n
        IN  /\ fn.out \in {"failed", "partial", "ready"}
            /\ fn.out = "failed"  <=> c = 0
            /\ fn.out = "partial" <=> (c # 0 /\ (over \/ c < 3))
            /\ fn.out = "ready"   <=> (c >= 3 /\ ~over)

\* one low-text page of five (exactly 20 per cent) and three chunks: ready
C16_Witness ==
    /\ fn.op = "chunk_status"
    /\ fn.done
    /\ fn.arg.page_count = 5
    /\ Len(fn.arg.low_text_pages) = 1
    /\ fn.arg.chunk_count = 3
    /\ fn.out = "ready"

(***************************************************************************)
(* C17.  When the content of a source yields at least one chunk, the       *)
(* source is not skipped and no embedding or store call of its handling    *)
(* fails, the handling ends with [ok]: the row of the (source_key, hash)   *)
(* is active, carries the computed status, which is 'ready' or 'partial',  *)
(* and owns one chunk row per chunk.  The status is 'failed' only for a    *)
(* content without chunks.                                                 *)
(***************************************************************************)
C17_StatusDoesNotGateActivation ==
    \A i \in 1..NumFiles :
        (/\ Handled(i) /\ ~args.dry_run /\ ~disturbed
         /\ ~YieldsNoChunks(i) /\ outcome[i] # "skipped") =>
            /\ outcome[i] = "processed"
            /\ status \in {"ready", "partial"}
            /\ \E d \in RowsOfHash(manual_documents, source_key_of(i), file_hash[i]) :
                   /\ d.id = document_id
                   /\ d.is_active
                   /\ d.extraction_status = status
                   /\ Cardinality(OwnedRows(manual_chunks, d.id)) = Len(chunks)

\* a 'partial' version was activated and replaced a 'ready' one
C17_Witness ==
    \E i \in 1..NumFiles :
        /\ Handled(i) /\ outcome[i] = "processed" /\ ~disturbed
        /\ status = "partial"
        /\ \E d \in ActiveOfKey(manual_documents, source_key_of(i)) :
               d.id = document_id /\ d.extraction_status = "partial"
        /\ \E e \in ActiveOfKey(pre.documents, source_key_of(i)) :
               e.id # document_id /\ e.extraction_status = "ready"

(***************************************************************************)
(* C18.  Every step of a dry run leaves the two store relations as they    *)
(* are, never stands before a store read or write or an embedding request  *)
(* (the run is only ever between sources, parsing, or over) and makes no   *)
(* embedding request; the sources handled so far ended as parsed or as a   *)
(* parse failure, and the processed counter is the number of those that    *)
(* parsed, whatever their content.                                         *)
(***************************************************************************)
C18_DryRunTouchesNothing ==
    [][ (args.dry_run \/ args'.dry_run) =>
           /\ manual_documents' = manual_documents
           /\ manual_chunks' = manual_chunks
           /\ next_id' = next_id
           /\ embed_calls' = 0
           /\ pc' \in {"idle", "loop", "parse"}
           /\ args'.dry_run =>
                 /\ \A i \in 1..NumFiles : outcome'[i] \notin {"skipped", "processed",
                                              "ingest_failed", "no_usable_chunks", "uncaught"}
                 /\ totals'.processed
                       = Cardinality({ i \in 1..(fi' - 1) : outcome'[i] # "parse_failed" })
                 /\ totals'.failed
                       = Cardinality({ i \in 1..(fi' - 1) : outcome'[i] = "parse_failed" })
                 /\ totals'.skipped = 0
                 /\ totals'.documents_written = 0
                 /\ totals'.chunks_written = 0
      ]_vars

\* a dry run over a filled store came to its end with every source parsed,
\* one of them with a content the store does not know and one without text
C18_Witness ==
    /\ args.dry_run
    /\ pc = "loop"
    /\ fi > NumFiles
    /\ totals.processed = NumFiles
    /\ manual_chunks # {}
    /\ \E i \in 1..NumFiles :
           RowsOfHash(manual_documents, source_key_of(i), file_hash[i]) = {}
    /\ \E i \in 1..NumFiles : YieldsNoChunks(i)

(***************************************************************************)
(* C19.  Whatever the batch size and the order of the items in the         *)
(* provider's responses, the vectors collected so far are, position by     *)
(* position, the embeddings of the first chunk texts; once every batch is  *)
(* embedded there are as many vectors as chunks, and every chunk payload   *)
(* carries the content of its chunk and the embedding of that content.     *)
(***************************************************************************)
C19_EmbeddingsAlignedWithChunks ==
    pc \in {"embed", "upsert"} =>
        /\ Len(embeddings) <= Len(chunks)
        /\ \A k \in 1..Len(embeddings) : embeddings[k] = embedding_of(chunks[k].content)
        /\ pc = "upsert" =>
              /\ Len(embeddings) = Len(chunks)
              /\ Len(chunk_payloads) = Len(chunks)
              /\ \A k \in 1..Len(chunks) :
                    /\ chunk_payloads[k].content = chunks[k].content
                    /\ chunk_payloads[k].chunk_index = k
                    /\ chunk_payloads[k].embedding = embedding_of(chunks[k].content)

\* five chunks were embedded in batches of two or three, the last one short
C19_Witness ==
    /\ pc = "upsert"
    /\ Len(chunks) = 5
    /\ args.embed_batch_size \in {2, 3}
    /\ embed_calls >= 2
    /\ \A j, k \in 1..Len(chunks) : chunks[j].content = chunks[k].content => j = k

(***************************************************************************)
(* C20.  For a token stream of L tokens (token i being the word i), a      *)
(* window W and an overlap O with 0 <= O < W, the chunks of build_chunks   *)
(* are such that: every chunk has between 1 and W tokens; chunk k is the   *)
(* run of consecutive tokens that begins at offset (k-1)*(W-O); two        *)
(* consecutive chunks have exactly O tokens in common; the last chunk ends *)
(* with token L; every token is in some chunk.                             *)
(***************************************************************************)
TokensOf(chunk) == { chunk.content[j] : j \in 1..Len(chunk.content) }

C20_WindowInvariants ==
    BuiltChunks =>
        LET L == Len(fn.arg.tokens)
            W == fn.arg.max_words
            O == fn.arg.overlap_words
            N == Len(fn.out)
        IN  /\ \A k \in 1..N :
                  /\ fn.out[k].token_count >= 1
                  /\ fn.out[k].token_count <= W
                  /\ Len(fn.out[k].content) = fn.out[k].token_count
                  /\ \A j \in 1..Len(fn.out[k].content) :
                         fn.out[k].content[j] = (k - 1) * (W - O) + j
            /\ \A k \in 1..(N - 1) :
                  Cardinality(TokensOf(fn.out[k]) \cap TokensOf(fn.out[k + 1])) = O
            /\ N > 0 => fn.out[N].content[Len(fn.out[N].content)] = L
            /\ \A t \in 1..L : \E k \in 1..N : t \in TokensOf(fn.out[k])

\* three or more windows that overlap by two tokens or more
C20_Witness ==
    /\ BuiltChunks
    /\ fn.arg.overlap_words >= 2
    /\ Len(fn.out) >= 3
    /\ Len(fn.arg.tokens) > fn.arg.max_words + 1

(***************************************************************************)
(* C21.  The section of every chunk is a label of its window that no other *)
(* label of the window outnumbers, and every other label that occurs as    *)
(* often is first met later in the window; page_start and page_end are the *)
(* page numbers of the first and of the last token of the window, and      *)
(* page_start <= page_end (the tokens being in page order).                *)
(***************************************************************************)
LabelCount(chunk, label) ==
    Cardinality({ t \in TokensOf(chunk) : fn.arg.tokens[t].section = label })

FirstMet(chunk, label) ==
    CHOOSE t \in TokensOf(chunk) :
        /\ fn.arg.tokens[t].section = label
        /\ \A u \in TokensOf(chunk) : fn.arg.tokens[u].section = label => t <= u

LabelsOf(chunk) == { fn.arg.tokens[t].section : t \in TokensOf(chunk) }

C21_SectionAndPagesOfWindow ==
    BuiltChunks =>
        \A k \in 1..Len(fn.out) :
            LET c == fn.out[k]
            IN  /\ c.section \in LabelsOf(c)
                /\ \A m \in LabelsOf(c) \ {c.section} :
                       \/ LabelCount(c, c.section) > LabelCount(c, m)
                       \/ /\ LabelCount(c, c.section) = LabelCount(c, m)
                          /\ FirstMet(c, c.section) < FirstMet(c, m)
                /\ c.page_start = fn.arg.tokens[c.content[1]].page_number
                /\ c.page_end = fn.arg.tokens[c.content[Len(c.content)]].page_number
                /\ c.page_start <= c.page_end

\* a window over two pages in which two labels tie, won by a heading's label
C21_Witness ==
    /\ BuiltChunks
    /\ \E k \in 1..Len(fn.out) :
          /\ fn.out[k].page_start < fn.out[k].page_end
          /\ Cardinality(LabelsOf(fn.out[k])) >= 2
          /\ \E m \in LabelsOf(fn.out[k]) \ {fn.out[k].section} :
                 LabelCount(fn.out[k], m) = LabelCount(fn.out[k], fn.out[k].section)
          /\ fn.out[k].section # "Overview"

(***************************************************************************)
(* C22.  The tokens of build_token_stream are exactly the words of the     *)
(* paragraphs that are not headings, one token per word, in the order of   *)
(* the document (page, paragraph, word); a heading yields no token.  Every *)
(* token carries the page number of its page and the label of the last     *)
(* heading that comes before its paragraph in the document, on its own or  *)
(* on an earlier page, and 'Overview' when there is none.                  *)
(***************************************************************************)
BuiltTokenStream == fn.op = "build_token_stream" /\ fn.done

ParagraphPlaces(pages) ==
    { pq \in (1..Len(pages)) \X (1..MaxParagraphs + 1) : pq[2] <= Len(pages[pq[1]].paragraphs) }

Before(a, b) == a[1] < b[1] \/ (a[1] = b[1] /\ a[2] < b[2])

HeadingsBefore(pages, place) ==
    { h \in ParagraphPlaces(pages) : pages[h[1]].paragraphs[h[2]].heading /\ Before(h, place) }

SectionInForce(pages, place) ==
    IF HeadingsBefore(pages, place) = {} THEN "Overview"
    ELSE LET last == CHOOSE h \in HeadingsBefore(pages, place) :
                         \A g \in HeadingsBefore(pages, place) : g = h \/ Before(g, h)
         IN  pages[last[1]].paragraphs[last[2]].label

BodyWords(pages) ==
    UNION { { pages[pq[1]].paragraphs[pq[2]].words[j] :
                 j \in 1..Len(pages[pq[1]].paragraphs[pq[2]].words) }
            : pq \in { x \in ParagraphPlaces(pages) : ~pages[x[1]].paragraphs[x[2]].heading } }

C22_TokenStreamIsLeftFold ==
    BuiltTokenStream =>
        LET pages == fn.arg.pages
            out == fn.out
        IN  /\ { out[i].word : i \in 1..Len(out) } = BodyWords(pages)
            /\ Len(out) = Cardinality(BodyWords(pages))
            /\ \A i, j \in 1..Len(out) : i < j => out[i].word < out[j].word
            /\ \A i \in 1..Len(out) :
                   LET place == << out[i].word \div 100, (out[i].word % 100) \div 10 >>
                   IN  /\ out[i].page_number = pages[place[1]].page_number
                       /\ out[i].section = SectionInForce(pages, place)

\* a heading of the first page is in force for a token of the second page,
\* after a body paragraph has come in between
C22_Witness ==
    /\ BuiltTokenStream
    /\ Len(fn.arg.pages) = 2
    /\ Len(fn.arg.pages[1].paragraphs) = 2
    /\ fn.arg.pages[1].paragraphs[1].heading
    /\ ~fn.arg.pages[1].paragraphs[2].heading
    /\ Len(fn.arg.pages[2].paragraphs) >= 1
    /\ ~fn.arg.pages[2].paragraphs[1].heading
    /\ \E i \in 1..Len(fn.out) :
           /\ fn.out[i].page_number = 2
           /\ fn.out[i].section = fn.arg.pages[1].paragraphs[1].label
    /\ fn.out[1].section # "Overview"

(***************************************************************************)
(* C23.  In every reachable state (the store starting empty, the sources   *)
(* handled one after the other, with failures and crashes at any step) no  *)
(* source_key has two active rows; in particular at the activate step,     *)
(* after the deactivate step, the source_key has no active row at all.     *)
(***************************************************************************)
C23_AtMostOneActivePerKey ==
    /\ \A d, e \in manual_documents :
           (d.source_key = e.source_key /\ d.is_active /\ e.is_active) => d.id = e.id
    /\ pc = "activate" => ActiveOfKey(manual_documents, source_key) = {}

\* a crash after the deactivate step left a source_key, whose older version
\* had been active, without an active row
C23_Witness ==
    /\ pc = "idle"
    /\ exit_status = "crashed"
    /\ \E i \in 1..NumFiles :
          /\ Cardinality(RowsOfKey(manual_documents, source_key_of(i))) >= 2
          /\ ActiveOfKey(manual_documents, source_key_of(i)) = {}
          /\ \A d \in RowsOfKey(manual_documents, source_key_of(i)) :
                 OwnedRows(manual_chunks, d.id) # {}

(***************************************************************************)
(* C24 (as claimed).  When the handling of a source ends as an ingest      *)
(* failure (an embedding request failed for good, or a store insert,       *)
(* update, delete or upsert raised), the version of its source_key that    *)
(* was active when the handling began is still active and owns exactly the *)
(* chunk rows it owned then, with or without --force.                      *)
(***************************************************************************)
C24_FailureKeepsActiveVersion ==
    \A i \in 1..NumFiles :
        (Handled(i) /\ outcome[i] = "ingest_failed") =>
            \A d \in ActiveOfKey(pre.documents, source_key_of(i)) :
                /\ \E e \in manual_documents : e.id = d.id /\ e.is_active
                /\ OwnedRows(manual_chunks, d.id) = OwnedRows(pre.chunks, d.id)

====
